---- MODULE Spec2Model ----
(***************************************************************************)
(* Model of sqlcheck's anti-pattern rules (src/list.cpp).                  *)
(*                                                                         *)
(* A SQL statement is a sequence of one-character strings.  The two        *)
(* classifier helpers (GetTableName, IsCreateStatement) and the six rules  *)
(* (CheckSelectStar ... CheckForeignKeyExists) are operators computed the  *)
(* way the code computes them: std::string::find is a substring search,    *)
(* std::regex_replace is a left-to-right scan, and every std::regex of the *)
(* file is written down element by element and run by a small matcher.     *)
(* CheckPattern and the rule engine live in checker.cpp; they are modelled *)
(* from the specification's sections 4.2 and 4.3.                          *)
(***************************************************************************)
EXTENDS Integers, Sequences, FiniteSets

VARIABLES
  sql_statement,     \* the statement under analysis
  op,                \* the operation invoked last ("none" before any call)
  table_name,        \* GetTableName's return value (last call)
  create_statement,  \* IsCreateStatement's return value (last call)
  out,               \* diagnostics emitted by the last call
  raised,            \* TRUE iff the last call ended in std::regex_error
  disabled,          \* Evaluate: the rule switched off in the second run
  out_all,           \* Evaluate: diagnostics with every rule enabled
  raised_all         \* Evaluate: did the run with every rule enabled throw

vars == <<sql_statement, op, table_name, create_statement, out, raised,
          disabled, out_all, raised_all>>

----------------------------------------------------------------------------
(* Bounds of the input space *)

\* longest run of blanks used as a gap between the keyword and the name
MaxSpaces == 2

\* number of column / constraint clauses that follow the table name
MaxClauses == 2

----------------------------------------------------------------------------
(* Characters and text fragments *)

SP == " "
TAB == "\t"

\* what \s matches among the characters that occur in statements
WhiteSpace == {SP, TAB}

IdChars == {"a","b","c","d","e","f","g","h","i","k","l","m","n","o","p",
            "r","s","t","u","v","x","y"}

kwCreateTable == <<"c","r","e","a","t","e"," ","t","a","b","l","e">>
kwReferences == <<"r","e","f","e","r","e","n","c","e","s">>
kwPrimaryKey == <<"p","r","i","m","a","r","y"," ","k","e","y">>
kwForeignKey == <<"f","o","r","e","i","g","n"," ","k","e","y">>
kwSelect == <<"s","e","l","e","c","t">>
kwId == <<"i","d">>
kwVarchar == <<"v","a","r","c","h","a","r">>
kwText == <<"t","e","x","t">>
kwRegexp == <<"r","e","g","e","x","p">>
kwSerial == <<"s","e","r","i","a","l">>
kwInt == <<"i","n","t">>

----------------------------------------------------------------------------
(* std::string primitives, positions counted from 1; 0 stands for npos *)

Max(S) == CHOOSE x \in S : \A y \in S : y <= x

Min(S) == CHOOSE x \in S : \A y \in S : x <= y

\* the positions at which p occurs in s
Occurrences(s, p) ==
  {i \in 1..(Len(s) - Len(p) + 1) : SubSeq(s, i, i + Len(p) - 1) = p}

\* std::string::find
Find(s, p) == IF Occurrences(s, p) = {} THEN 0 ELSE Min(Occurrences(s, p))

\* std::string::substr(pos) with pos counted from 1
Substr(s, pos) == SubSeq(s, pos, Len(s))

----------------------------------------------------------------------------
(* std::regex, restricted to the constructs list.cpp uses.  A compiled      *)
(* expression is a set of alternatives; an alternative is a sequence of    *)
(* elements: a literal character, \s+ or an optional character.  Capture   *)
(* groups do not change what a search finds and are dropped.               *)

Lit(str) == [i \in 1..Len(str) |-> [k |-> "lit", c |-> str[i]]]

Ws1 == <<[k |-> "ws+", c |-> ""]>>

Opt(ch) == <<[k |-> "opt", c |-> ch]>>

RECURSIVE MatchFrom(_, _, _, _)
\* does alt[k..] match s starting at position i
MatchFrom(alt, k, s, i) ==
  IF k > Len(alt) THEN TRUE
  ELSE CASE alt[k].k = "lit" ->
              /\ i <= Len(s)
              /\ s[i] = alt[k].c
              /\ MatchFrom(alt, k + 1, s, i + 1)
         [] alt[k].k = "ws+" ->
              /\ i <= Len(s)
              /\ s[i] \in WhiteSpace
              /\ \E j \in (i + 1)..(Len(s) + 1) :
                    /\ \A m \in (i + 1)..(j - 1) : s[m] \in WhiteSpace
                    /\ MatchFrom(alt, k + 1, s, j)
         [] alt[k].k = "opt" ->
              \/ /\ i <= Len(s)
                 /\ s[i] = alt[k].c
                 /\ MatchFrom(alt, k + 1, s, i + 1)
              \/ MatchFrom(alt, k + 1, s, i)

\* std::regex_search / a non-empty std::sregex_iterator range
RegexSearch(pattern, s) ==
  \E alt \in pattern : \E i \in 1..(Len(s) + 1) : MatchFrom(alt, 1, s, i)

RECURSIVE ParenDepth(_, _, _)
\* depth of open groups after reading str[i..], -1 once a ")" closes nothing
ParenDepth(str, i, depth) ==
  IF depth < 0 THEN -1
  ELSE IF i > Len(str) THEN depth
  ELSE IF str[i] = "(" THEN ParenDepth(str, i + 1, depth + 1)
  ELSE IF str[i] = ")" THEN ParenDepth(str, i + 1, depth - 1)
  ELSE ParenDepth(str, i + 1, depth)

\* the std::regex constructor throws regex_error(error_paren) on these
RegexError(str) == ParenDepth(str, 1, 0) # 0

\* the expression string without its group parentheses
RECURSIVE Ungroup(_)
Ungroup(str) ==
  IF str = <<>> THEN <<>>
  ELSE IF Head(str) \in {"(", ")"} THEN Ungroup(Tail(str))
  ELSE <<Head(str)>> \o Ungroup(Tail(str))

----------------------------------------------------------------------------
(* Statement classifier *)

\* last position of the run of blanks that starts at i
RunEnd(s, i) == Max({j \in i..Len(s) : \A m \in i..j : s[m] = SP})

RECURSIVE StripSpaces(_, _)
\* std::regex_replace(rest, std::regex("^ +| +$|( ) +"), "$1") from position i
StripSpaces(s, i) ==
  IF i > Len(s) THEN <<>>
  ELSE IF s[i] # SP THEN <<s[i]>> \o StripSpaces(s, i + 1)
  ELSE LET e == RunEnd(s, i) IN
       IF i = 1 THEN StripSpaces(s, e + 1)
       ELSE IF e = Len(s) THEN <<>>
       ELSE IF e > i THEN <<SP>> \o StripSpaces(s, e + 1)
       ELSE <<SP>> \o StripSpaces(s, i + 1)

GetTableName(stmt) ==
  LET found == Find(stmt, kwCreateTable) IN
  IF found = 0 THEN <<>>
  ELSE LET rest == StripSpaces(Substr(stmt, found + Len(kwCreateTable)), 1)
           blank == Find(rest, <<SP>>)
       IN IF blank = 0 THEN rest ELSE SubSeq(rest, 1, blank - 1)

IsCreateStatement_Always(stmt) == TRUE

IsCreateStatement(stmt) == Find(stmt, kwCreateTable) # 0

----------------------------------------------------------------------------
(* Rules.  A rule returns the diagnostics it emits and whether it threw.   *)

LOG_LEVEL_WARN == "WARN"
LOG_LEVEL_ERROR == "ERROR"
PATTERN_TYPE_QUERY == "QUERY"
PATTERN_TYPE_CREATION == "CREATION"

Diagnostic(title, level, type, message) ==
  [title |-> title, level |-> level, type |-> type, message |-> message]

Emitted(diags) == [diags |-> diags, error |-> FALSE]

Skipped == Emitted(<<>>)

Thrown == [diags |-> <<>>, error |-> TRUE]

\* checker.cpp: one diagnostic when the search result equals `exists`
CheckPattern(state, stmt, pattern, level, type, title, message, exists) ==
  IF RegexSearch(pattern, stmt) = exists
  THEN Emitted(<<Diagnostic(title, level, type, message)>>)
  ELSE Skipped

\* (select\s+\*)
SelectStarPattern == {Lit(kwSelect) \o Ws1 \o Lit(<<"*">>)}

CheckSelectStar(state, stmt) ==
  CheckPattern(state, stmt, SelectStarPattern, LOG_LEVEL_ERROR,
               PATTERN_TYPE_QUERY, "SELECT *",
               "Inefficiency in moving data to the consumer", TRUE)

\* (id\s+varchar)|(id\s+text)|(id\s+regexp)
MultiValuedAttributePattern ==
  {Lit(kwId) \o Ws1 \o Lit(kwVarchar),
   Lit(kwId) \o Ws1 \o Lit(kwText),
   Lit(kwId) \o Ws1 \o Lit(kwRegexp)}

CheckMultiValuedAttribute_Gated(state, stmt) ==
  IF ~IsCreateStatement(stmt) THEN Skipped
  ELSE CheckPattern(state, stmt, MultiValuedAttributePattern, LOG_LEVEL_ERROR,
                    PATTERN_TYPE_CREATION, "Multi-Valued Attribute",
                    "Store each value in its own column and row", TRUE)

CheckMultiValuedAttribute(state, stmt) ==
  CheckPattern(state, stmt, MultiValuedAttributePattern, LOG_LEVEL_ERROR,
               PATTERN_TYPE_CREATION, "Multi-Valued Attribute",
               "Store each value in its own column and row", TRUE)

\* the expression string "(references\\s+" + table_name + ")"
RecursiveDependencyExpr(name) ==
  <<"(">> \o kwReferences \o <<"\\", "s", "+">> \o name \o <<")">>

\* what that string compiles to when it compiles
RecursiveDependencyPattern(name) ==
  {Lit(kwReferences) \o Ws1 \o Lit(Ungroup(name))}

CheckRecursiveDependency(state, stmt) ==
  LET name == GetTableName(stmt) IN
  IF name = <<>> THEN Skipped
  ELSE IF RegexError(RecursiveDependencyExpr(name)) THEN Thrown
  ELSE CheckPattern(state, stmt, RecursiveDependencyPattern(name),
                    LOG_LEVEL_ERROR, PATTERN_TYPE_CREATION,
                    "Recursive Dependency",
                    "Avoid recursive relationships", TRUE)

\* (primary key)
PrimaryKeyPattern == {Lit(kwPrimaryKey)}

CheckPrimaryKeyExists_OnMatch(state, stmt) ==
  IF IsCreateStatement(stmt) = FALSE THEN Skipped
  ELSE CheckPattern(state, stmt, PrimaryKeyPattern, LOG_LEVEL_WARN,
                    PATTERN_TYPE_CREATION, "Primary Key Exists",
                    "Consider adding a primary key", TRUE)

CheckPrimaryKeyExists(state, stmt) ==
  IF IsCreateStatement(stmt) = FALSE THEN Skipped
  ELSE CheckPattern(state, stmt, PrimaryKeyPattern, LOG_LEVEL_WARN,
                    PATTERN_TYPE_CREATION, "Primary Key Exists",
                    "Consider adding a primary key", FALSE)

\* (\s+[\(]?id\s+)|(,id\s+)|(\s+id\s+serial)
GenericPrimaryKeyPattern ==
  {Ws1 \o Opt("(") \o Lit(kwId) \o Ws1,
   Lit(<<",">>) \o Lit(kwId) \o Ws1,
   Ws1 \o Lit(kwId) \o Ws1 \o Lit(kwSerial)}

CheckGenericPrimaryKey(state, stmt) ==
  IF IsCreateStatement(stmt) = FALSE THEN Skipped
  ELSE CheckPattern(state, stmt, GenericPrimaryKeyPattern, LOG_LEVEL_ERROR,
                    PATTERN_TYPE_CREATION, "Generic Primary Key",
                    "Skip using a generic primary key (id)", TRUE)

\* (foreign key)
ForeignKeyPattern == {Lit(kwForeignKey)}

CheckForeignKeyExists(state, stmt) ==
  IF IsCreateStatement(stmt) = FALSE THEN Skipped
  ELSE CheckPattern(state, stmt, ForeignKeyPattern, LOG_LEVEL_WARN,
                    PATTERN_TYPE_CREATION, "Foreign Key Exists",
                    "Consider adding a foreign key", FALSE)

----------------------------------------------------------------------------
(* Rule engine (checker.cpp): the enabled rules in registration order; a   *)
(* rule that throws ends the evaluation.                                   *)

RuleOrder ==
  <<"SELECT *", "Multi-Valued Attribute", "Recursive Dependency",
    "Primary Key Exists", "Generic Primary Key", "Foreign Key Exists">>

AllRules == {RuleOrder[i] : i \in DOMAIN RuleOrder}

RunRule(title, state, stmt) ==
  CASE title = "SELECT *" -> CheckSelectStar(state, stmt)
    [] title = "Multi-Valued Attribute" -> CheckMultiValuedAttribute(state, stmt)
    [] title = "Recursive Dependency" -> CheckRecursiveDependency(state, stmt)
    [] title = "Primary Key Exists" -> CheckPrimaryKeyExists(state, stmt)
    [] title = "Generic Primary Key" -> CheckGenericPrimaryKey(state, stmt)
    [] title = "Foreign Key Exists" -> CheckForeignKeyExists(state, stmt)

RECURSIVE EvaluateFrom(_, _, _, _)
EvaluateFrom(state, stmt, i, acc) ==
  IF i > Len(RuleOrder) THEN Emitted(acc)
  ELSE IF RuleOrder[i] \notin state THEN EvaluateFrom(state, stmt, i + 1, acc)
  ELSE LET r == RunRule(RuleOrder[i], state, stmt) IN
       IF r.error THEN [diags |-> acc, error |-> TRUE]
       ELSE EvaluateFrom(state, stmt, i + 1, acc \o r.diags)

Evaluate(state, stmt) == EvaluateFrom(state, stmt, 1, <<>>)

----------------------------------------------------------------------------
(* The statements analysed: an optional head "create table <gap> <name>"   *)
(* followed by some of the clauses below.                                  *)

Spaces(n) == [i \in 1..n |-> SP]

Gaps == {Spaces(n) : n \in 0..MaxSpaces} \cup {<<TAB>>, <<SP, TAB>>}

Names == {<<>>, <<"t">>, <<"t", "u">>, <<"u">>}

Leads ==
  {<<>>,
   kwReferences \o <<SP, "t", SP>>,
   kwReferences \o <<SP, TAB, SP>>}

Closers == {<<>>, <<SP>>}

CreationHeads ==
  {l \o kwCreateTable \o g \o n \o c :
      l \in Leads, g \in Gaps, n \in Names, c \in Closers}

OtherHeads ==
  {<<>>,
   kwSelect \o <<SP, "*", SP>>,
   <<"c","r","e","a","t","e"," "," ","t","a","b","l","e"," ","t"," ">>}

Clauses ==
  << <<"(", "u", ")">>,
     <<"(">> \o kwId \o <<SP>> \o kwInt,
     <<"(", "u">> \o kwId \o <<SP>> \o kwInt,
     <<",">> \o kwId \o <<TAB>> \o kwVarchar,
     <<SP>> \o kwPrimaryKey,
     <<SP>> \o kwForeignKey,
     <<SP>> \o kwReferences \o <<SP, "t">>,
     <<SP>> \o kwReferences \o <<SP, "t", "u">>,
     <<SP>> \o kwReferences \o <<TAB, "u">> >>

RECURSIVE Join(_, _)
\* the clauses chosen by S, in the order of Clauses
Join(S, i) ==
  IF i > Len(Clauses) THEN <<>>
  ELSE (IF i \in S THEN Clauses[i] ELSE <<>>) \o Join(S, i + 1)

Bodies ==
  {Join(S, 1) : S \in {T \in SUBSET (DOMAIN Clauses) : Cardinality(T) <= MaxClauses}}

Statements == {h \o b : h \in CreationHeads \cup OtherHeads, b \in Bodies}

----------------------------------------------------------------------------
(* State machine: the caller hands one statement to one operation at a     *)
(* time; every call starts from an empty output.                           *)

Init ==
  /\ sql_statement \in Statements
  /\ op = "none"
  /\ table_name = <<>>
  /\ create_statement = FALSE
  /\ out = <<>>
  /\ raised = FALSE
  /\ disabled = "none"
  /\ out_all = <<>>
  /\ raised_all = FALSE

CallGetTableName ==
  /\ op = "none"
  /\ op' = "GetTableName"
  /\ table_name' = GetTableName(sql_statement)
  /\ UNCHANGED <<sql_statement, create_statement, out, raised, disabled,
                 out_all, raised_all>>

CallIsCreateStatement ==
  /\ op = "none"
  /\ op' = "IsCreateStatement"
  /\ create_statement' = IsCreateStatement(sql_statement)
  /\ UNCHANGED <<sql_statement, table_name, out, raised, disabled, out_all,
                 raised_all>>

\* each rule called on its own, with every rule enabled in the Configuration

CallCheckSelectStar ==
  /\ op = "none"
  /\ op' = "SELECT *"
  /\ \E r \in {CheckSelectStar(AllRules, sql_statement)} :
        /\ out' = r.diags
        /\ raised' = r.error
  /\ UNCHANGED <<sql_statement, table_name, create_statement, disabled,
                 out_all, raised_all>>

CallCheckMultiValuedAttribute ==
  /\ op = "none"
  /\ op' = "Multi-Valued Attribute"
  /\ \E r \in {CheckMultiValuedAttribute(AllRules, sql_statement)} :
        /\ out' = r.diags
        /\ raised' = r.error
  /\ UNCHANGED <<sql_statement, table_name, create_statement, disabled,
                 out_all, raised_all>>

CallCheckRecursiveDependency ==
  /\ op = "none"
  /\ op' = "Recursive Dependency"
  /\ \E r \in {CheckRecursiveDependency(AllRules, sql_statement)} :
        /\ out' = r.diags
        /\ raised' = r.error
  /\ UNCHANGED <<sql_statement, table_name, create_statement, disabled,
                 out_all, raised_all>>

CallCheckPrimaryKeyExists ==
  /\ op = "none"
  /\ op' = "Primary Key Exists"
  /\ \E r \in {CheckPrimaryKeyExists(AllRules, sql_statement)} :
        /\ out' = r.diags
        /\ raised' = r.error
  /\ UNCHANGED <<sql_statement, table_name, create_statement, disabled,
                 out_all, raised_all>>

CallCheckGenericPrimaryKey ==
  /\ op = "none"
  /\ op' = "Generic Primary Key"
  /\ \E r \in {CheckGenericPrimaryKey(AllRules, sql_statement)} :
        /\ out' = r.diags
        /\ raised' = r.error
  /\ UNCHANGED <<sql_statement, table_name, create_statement, disabled,
                 out_all, raised_all>>

CallCheckForeignKeyExists ==
  /\ op = "none"
  /\ op' = "Foreign Key Exists"
  /\ \E r \in {CheckForeignKeyExists(AllRules, sql_statement)} :
        /\ out' = r.diags
        /\ raised' = r.error
  /\ UNCHANGED <<sql_statement, table_name, create_statement, disabled,
                 out_all, raised_all>>

Next ==
  \/ CallGetTableName
  \/ CallIsCreateStatement
  \/ CallCheckSelectStar
  \/ CallCheckMultiValuedAttribute
  \/ CallCheckRecursiveDependency
  \/ CallCheckPrimaryKeyExists
  \/ CallCheckGenericPrimaryKey
  \/ CallCheckForeignKeyExists

Spec == Init /\ [][Next]_vars

----------------------------------------------------------------------------
(* The engine run twice on one statement: with every rule enabled, and     *)
(* with one rule disabled.                                                 *)

CallEvaluateAll ==
  /\ op = "none"
  /\ op' = "EvaluateAll"
  /\ \E r \in {Evaluate(AllRules, sql_statement)} :
        /\ out_all' = r.diags
        /\ raised_all' = r.error
  /\ UNCHANGED <<sql_statement, table_name, create_statement, out, raised,
                 disabled>>

CallEvaluateWithout ==
  /\ op = "EvaluateAll"
  /\ op' = "Evaluate"
  /\ \E d \in AllRules :
       \E r \in {Evaluate(AllRules \ {d}, sql_statement)} :
          /\ disabled' = d
          /\ out' = r.diags
          /\ raised' = r.error
  /\ UNCHANGED <<sql_statement, table_name, create_statement, out_all,
                 raised_all>>

NextEngine == CallEvaluateAll \/ CallEvaluateWithout

SpecEngine == Init /\ [][NextEngine]_vars

----------------------------------------------------------------------------
(* Vocabulary of the properties: what a statement says, read off its text *)
(* without the classifier.                                                 *)

Contains(s, p) == Occurrences(s, p) # {}

\* first position at or after i that holds no whitespace (Len(s)+1 if none)
SkipWhiteSpace(s, i) ==
  Min({j \in i..(Len(s) + 1) : j = Len(s) + 1 \/ s[j] \notin WhiteSpace})

\* first position at or after i that holds whitespace (Len(s)+1 if none)
NextWhiteSpace(s, i) ==
  Min({j \in i..(Len(s) + 1) : j = Len(s) + 1 \/ s[j] \in WhiteSpace})

\* the identifier that starts at position i (empty if none does)
IdentAt(s, i) ==
  SubSeq(s, i, Min({j \in i..(Len(s) + 1) :
                      j = Len(s) + 1 \/ s[j] \notin IdChars}) - 1)

\* the text that follows the first "create table"
AfterCreate(s) == Substr(s, Find(s, kwCreateTable) + Len(kwCreateTable))

\* the table a creation statement defines: the identifier that follows
\* "create table" and at least one whitespace character
DefinedTable(s) ==
  LET rest == AfterCreate(s) IN
  IF rest # <<>> /\ rest[1] \in WhiteSpace
  THEN IdentAt(rest, SkipWhiteSpace(rest, 1))
  ELSE <<>>

\* the tables named by the statement's references clauses
ReferencedTables(s) ==
  {IdentAt(s, SkipWhiteSpace(s, i + Len(kwReferences))) :
     i \in {k \in Occurrences(s, kwReferences) :
              /\ k + Len(kwReferences) <= Len(s)
              /\ s[k + Len(kwReferences)] \in WhiteSpace}} \ {<<>>}

\* a column whose whole name is id
HasIdColumn(s) ==
  \E i \in Occurrences(s, kwId) :
     /\ i = 1 \/ s[i - 1] \notin IdChars
     /\ i + Len(kwId) > Len(s) \/ s[i + Len(kwId)] \notin IdChars

\* "id", one or more whitespace characters, then varchar, text or regexp
HasIdListColumn(s) ==
  \E i \in Occurrences(s, kwId) :
     LET j == SkipWhiteSpace(s, i + Len(kwId)) IN
     /\ j > i + Len(kwId)
     /\ \E w \in {kwVarchar, kwText, kwRegexp} : j \in Occurrences(s, w)

GatedRules ==
  {"Primary Key Exists", "Generic Primary Key", "Foreign Key Exists",
   "Recursive Dependency"}

\* exactly one diagnostic, of this rule, level and category
OneDiagnostic(diags, title, level, type) ==
  /\ Len(diags) = 1
  /\ diags[1].title = title
  /\ diags[1].level = level
  /\ diags[1].type = type

\* the diagnostics of one rule within a sequence
OfRule(diags, title) == SelectSeq(diags, LAMBDA d : d.title = title)

----------------------------------------------------------------------------
(* Properties *)

\* C1: on a statement without "create table", each of the four
\* creation-gated rules returns without emitting anything (and without
\* evaluating, so without throwing).
C1_GatedRulesSkipNonCreation ==
  (op \in GatedRules /\ ~Contains(sql_statement, kwCreateTable))
     => (out = <<>> /\ ~raised)

\* C1 witness: Primary Key Exists has run on a statement that has neither
\* "create table" nor "primary key", where an ungated absence rule would fire.
C1_Witness ==
  /\ op = "Primary Key Exists"
  /\ ~Contains(sql_statement, kwCreateTable)
  /\ ~Contains(sql_statement, kwPrimaryKey)
  /\ Contains(sql_statement, kwReferences)
  /\ out = <<>>

\* C5: on a creation statement Primary Key Exists / Foreign Key Exists emit
\* exactly one WARN iff "primary key" / "foreign key" occurs nowhere in the
\* text; the match-means-violation rules emit exactly one diagnostic iff
\* their pattern is found.
C5_TriggerPolicies ==
  /\ (op = "Primary Key Exists" /\ Contains(sql_statement, kwCreateTable)) =>
        IF Contains(sql_statement, kwPrimaryKey)
        THEN out = <<>>
        ELSE OneDiagnostic(out, op, "WARN", "CREATION")
  /\ (op = "Foreign Key Exists" /\ Contains(sql_statement, kwCreateTable)) =>
        IF Contains(sql_statement, kwForeignKey)
        THEN out = <<>>
        ELSE OneDiagnostic(out, op, "WARN", "CREATION")
  /\ op = "SELECT *" =>
        IF RegexSearch(SelectStarPattern, sql_statement)
        THEN OneDiagnostic(out, op, "ERROR", "QUERY")
        ELSE out = <<>>
  /\ op = "Multi-Valued Attribute" =>
        IF RegexSearch(MultiValuedAttributePattern, sql_statement)
        THEN OneDiagnostic(out, op, "ERROR", "CREATION")
        ELSE out = <<>>
  /\ (op = "Generic Primary Key" /\ Contains(sql_statement, kwCreateTable)) =>
        IF RegexSearch(GenericPrimaryKeyPattern, sql_statement)
        THEN OneDiagnostic(out, op, "ERROR", "CREATION")
        ELSE out = <<>>
  /\ (op = "Recursive Dependency" /\ ~raised) =>
        IF /\ GetTableName(sql_statement) # <<>>
           /\ RegexSearch(RecursiveDependencyPattern(GetTableName(sql_statement)),
                          sql_statement)
        THEN OneDiagnostic(out, op, "ERROR", "CREATION")
        ELSE out = <<>>

\* C5 witness: Primary Key Exists has fired on a creation statement that
\* has no "primary key" but does have "foreign key".
C5_Witness ==
  /\ op = "Primary Key Exists"
  /\ Contains(sql_statement, kwCreateTable)
  /\ ~Contains(sql_statement, kwPrimaryKey)
  /\ Contains(sql_statement, kwForeignKey)
  /\ Len(out) = 1

\* C10: Multi-Valued Attribute is not gated: on every statement it emits
\* exactly one ERROR diagnostic of category CREATION iff the text has "id",
\* whitespace, then varchar/text/regexp; and on a statement without
\* "create table" no other rule emits a CREATION diagnostic.
C10_MultiValuedAttributeUngated ==
  /\ op = "Multi-Valued Attribute" =>
        IF HasIdListColumn(sql_statement)
        THEN OneDiagnostic(out, op, "ERROR", "CREATION")
        ELSE out = <<>>
  /\ (/\ op \in AllRules
      /\ ~Contains(sql_statement, kwCreateTable)
      /\ \E i \in DOMAIN out : out[i].type = "CREATION")
        => op = "Multi-Valued Attribute"

\* C10 witness: the rule has emitted its CREATION diagnostic for a
\* statement that has no "create table".
C10_Witness ==
  /\ op = "Multi-Valued Attribute"
  /\ ~Contains(sql_statement, kwCreateTable)
  /\ OneDiagnostic(out, op, "ERROR", "CREATION")

\* C2: for a creation statement that defines table T, Recursive Dependency
\* emits exactly one ERROR diagnostic when a references clause names T, and
\* nothing when every references clause names another table.
C2_RecursiveDependencyExact ==
  (/\ op = "Recursive Dependency"
   /\ Contains(sql_statement, kwCreateTable)
   /\ DefinedTable(sql_statement) # <<>>)
     => IF DefinedTable(sql_statement) \in ReferencedTables(sql_statement)
        THEN ~raised /\ OneDiagnostic(out, op, "ERROR", "CREATION")
        ELSE ~raised /\ out = <<>>

\* C3: no rule ever ends in an error, whatever the statement (and so
\* whatever the extracted table name spliced into the expression).
C3_NoRuleThrows == op \in AllRules => ~raised

\* C4: on a creation statement Generic Primary Key emits exactly one ERROR
\* diagnostic iff the statement has a column whose whole name is id.
C4_GenericPrimaryKeyExact ==
  (op = "Generic Primary Key" /\ Contains(sql_statement, kwCreateTable))
     => IF HasIdColumn(sql_statement)
        THEN OneDiagnostic(out, op, "ERROR", "CREATION")
        ELSE out = <<>>

\* C6: GetTableName returns the first whitespace-delimited token of the
\* text after the first "create table" (empty when the keyword is absent),
\* so its result holds no whitespace character.
C6_FirstWhitespaceDelimitedToken ==
  op = "GetTableName" =>
     /\ \A i \in DOMAIN table_name : table_name[i] \notin WhiteSpace
     /\ IF Contains(sql_statement, kwCreateTable)
        THEN LET rest == AfterCreate(sql_statement)
                 from == SkipWhiteSpace(rest, 1)
             IN table_name = SubSeq(rest, from, NextWhiteSpace(rest, from) - 1)
        ELSE table_name = <<>>

\* C7: for the layouts "create table T (cols)" and "create table T(cols)"
\* GetTableName returns T, or T followed by one "(".
C7_NameWithoutColumns ==
  (/\ op = "GetTableName"
   /\ Contains(sql_statement, kwCreateTable)
   /\ DefinedTable(sql_statement) # <<>>
   /\ LET rest == AfterCreate(sql_statement)
          after == SkipWhiteSpace(rest, 1) + Len(DefinedTable(sql_statement))
      IN /\ \A i \in 1..(SkipWhiteSpace(rest, 1) - 1) : rest[i] = SP
         /\ \/ after \in Occurrences(rest, <<"(">>)
            \/ after \in Occurrences(rest, <<SP, "(">>))
     => table_name \in {DefinedTable(sql_statement),
                        DefinedTable(sql_statement) \o <<"(">>}

\* C8: when only whitespace (or nothing) follows "create table", the
\* extracted name is empty and Recursive Dependency emits nothing.
C8_EmptyNameShortCircuits ==
  (/\ Contains(sql_statement, kwCreateTable)
   /\ \A i \in DOMAIN AfterCreate(sql_statement) :
         AfterCreate(sql_statement)[i] \in WhiteSpace)
     => /\ op = "GetTableName" => table_name = <<>>
        /\ op = "Recursive Dependency" => (out = <<>> /\ ~raised)

\* C9: the diagnostics of every rule other than the disabled one are the
\* same in the run with that rule disabled and in the run with all enabled.
C9_RuleIndependence ==
  op = "Evaluate" =>
     \A t \in AllRules \ {disabled} : OfRule(out, t) = OfRule(out_all, t)

====
